---------------------------- MODULE Spec2Model ----------------------------
(***************************************************************************)
(* The three data-collection scripts of the repository as state machines:  *)
(*   agent/kalshi_agent.py            KalshiDataAgent.run_collection       *)
(*   assignment-scripts/cat-facts.py  get_cat_facts and the module body    *)
(*   assignment-scripts/holidays.py   the module-level country loop        *)
(* One behaviour is one run of one script (variable script).  The remote   *)
(* API is the environment: every HTTP call draws its response from a       *)
(* small set of responses.  Ratios (success rate, quality scores, delay    *)
(* multiplier) are exact rationals <<numerator, denominator>>.  Wall-clock *)
(* readings (timestamps, durations) are opaque.                            *)
(***************************************************************************)
EXTENDS Integers, Sequences, FiniteSets, TLC

VARIABLES
    script,             \* which script this run executes
    pc,                 \* position of the single thread in the script
    response,           \* the last HTTP response (or raised exception)
    last_event,         \* last blocking operation: "none", "request", "sleep"
    http_requests,      \* number of HTTP GETs issued so far in the run
    saved,              \* names of the output files written
    num_markets,        \* kalshi: config['num_markets']
    data_store,         \* kalshi: self.data_store
    collection_stats,   \* kalshi: self.collection_stats (the three counters)
    delay_multiplier,   \* kalshi: self.delay_multiplier
    data,               \* kalshi: the value returned by collect_batch
    processed,          \* kalshi: the record built by process_data
    exception_caught,   \* kalshi: run_collection's except clause ran
    summary,            \* kalshi: the summary passed to save_reports
    quality_report,     \* kalshi: the quality report passed to save_reports
    i,                  \* cat-facts: loop index of get_cat_facts
    facts,              \* cat-facts: the list of facts
    ci,                 \* holidays: index of the next country
    countries_summary,  \* holidays: country -> number of holidays
    holiday_summary     \* holidays: the summary of create_holiday_summary

vars == <<script, pc, response, last_event, http_requests, saved, num_markets,
          data_store, collection_stats, delay_multiplier, data, processed,
          exception_caught, summary, quality_report, i, facts, ci,
          countries_summary, holiday_summary>>

kalshi_vars == <<num_markets, data_store, collection_stats, delay_multiplier,
                 data, processed, exception_caught, summary, quality_report>>
cat_vars == <<i, facts>>
holiday_vars == <<ci, countries_summary, holiday_summary>>

---------------------------------------------------------------------------
(* Bounds of the model. *)
MaxMarkets == 2
MaxRequests == 5

(* Program constants. *)
NumFacts == 5
countries == <<"US", "CA", "GB">>

---------------------------------------------------------------------------
(* JSON scalars: a tagged value, so that values of different Python types  *)
(* can be compared.                                                        *)
Str(s) == [tag |-> "str", s |-> s, n |-> 0]
Num(n) == [tag |-> "num", s |-> "", n |-> n]
None == [tag |-> "none", s |-> "", n |-> 0]

(* Python truthiness of a scalar: None, "" and 0 are falsy. *)
Truthy(v) ==
    CASE v.tag = "str" -> v.s # ""
      [] v.tag = "num" -> v.n # 0
      [] OTHER -> FALSE

(* isinstance(v, (int, float)) *)
IsNumber(v) == v.tag = "num"

(* dict.get(key, default) *)
Get(d, k, default) == IF k \in DOMAIN d THEN d[k] ELSE default

EmptyMap == [k \in {} |-> None]

(* What make_api_request returns: None, a mapping, or a JSON value that is *)
(* not a mapping (a truthy string or number).                              *)
NoData == [kind |-> "none", val |-> EmptyMap]
Dict(m) == [kind |-> "dict", val |-> m]
NonMapping == [kind |-> "other", val |-> EmptyMap]

(* Python truthiness of the returned value: None and {} are falsy. *)
TruthyData(d) ==
    CASE d.kind = "none" -> FALSE
      [] d.kind = "dict" -> DOMAIN d.val # {}
      [] OTHER -> TRUE

(* datetime.now().isoformat(): an opaque non-empty string. *)
Timestamp == Str("iso-timestamp")

---------------------------------------------------------------------------
(* Exact rationals <<n, d>> with d > 0. *)
RLess(a, b) == a[1] * b[2] < b[1] * a[2]
REq(a, b) == a[1] * b[2] = b[1] * a[2]
RAdd(a, b) == <<a[1] * b[2] + b[1] * a[2], a[2] * b[2]>>
RMul(a, b) == <<a[1] * b[1], a[2] * b[2]>>

RECURSIVE SumLens(_)
SumLens(s) ==
    IF s = <<>> THEN 0 ELSE Cardinality(DOMAIN Head(s)) + SumLens(Tail(s))

RECURSIVE SumFilled(_)
SumFilled(s) ==
    IF s = <<>> THEN 0
    ELSE Cardinality({k \in DOMAIN Head(s) :
                         Truthy(Head(s)[k]) /\ Head(s)[k] # Str("N/A")})
         + SumFilled(Tail(s))

---------------------------------------------------------------------------
(* agent/kalshi_agent.py *)

InitialStats ==
    [total_requests |-> 0, successful_requests |-> 0, failed_requests |-> 0]

(* get_success_rate *)
get_success_rate(stats) ==
    IF stats.total_requests > 0
    THEN <<stats.successful_requests, stats.total_requests>>
    ELSE <<1, 1>>

(* adjust_strategy: the new delay multiplier *)
adjust_strategy(stats, mult) ==
    LET success_rate == get_success_rate(stats) IN
    IF RLess(success_rate, <<1, 2>>) THEN RMul(mult, <<2, 1>>)
    ELSE IF RLess(<<9, 10>>, success_rate) THEN RMul(mult, <<8, 10>>)
    ELSE mult

(* collect_batch, up to the request: the multiplier it leaves *)
collect_batch_multiplier(stats, mult) ==
    IF RLess(get_success_rate(stats), <<8, 10>>)
    THEN adjust_strategy(stats, mult)
    ELSE mult

(* Responses of GET /markets.  raised: session.get raised.  decodes: FALSE *)
(* when response.json() raises or the decoded body does not support        *)
(* .get('markets', [])[0].  json: the decoded body.                        *)
Raised == [raised |-> TRUE, status_code |-> 0, decodes |-> FALSE, json |-> EmptyMap]
HttpError == [raised |-> FALSE, status_code |-> 500, decodes |-> FALSE, json |-> EmptyMap]
Malformed == [raised |-> FALSE, status_code |-> 200, decodes |-> FALSE, json |-> EmptyMap]
Ok(body) == [raised |-> FALSE, status_code |-> 200, decodes |-> TRUE, json |-> body]

(* a variant of make_api_request_stats that counts a request as attempted  *)
(* only where it counts it as failed                                       *)
make_api_request_miscount(stats, r) ==
    IF ~r.raised /\ r.status_code = 200
    THEN [stats EXCEPT !.successful_requests = @ + 1]
    ELSE [stats EXCEPT !.total_requests = @ + 1, !.failed_requests = @ + 1]

(* make_api_request: the counters after the call.  successful_requests is  *)
(* incremented before the body is decoded, inside the try block.           *)
make_api_request_stats(stats, r) ==
    LET s1 == [stats EXCEPT !.total_requests = @ + 1] IN
    IF r.raised THEN [s1 EXCEPT !.failed_requests = @ + 1]
    ELSE IF r.status_code = 200
         THEN LET s2 == [s1 EXCEPT !.successful_requests = @ + 1] IN
              IF r.decodes THEN s2 ELSE [s2 EXCEPT !.failed_requests = @ + 1]
         ELSE [s1 EXCEPT !.failed_requests = @ + 1]

(* make_api_request: the value returned *)
make_api_request_result(r) ==
    IF ~r.raised /\ r.status_code = 200 /\ r.decodes
    THEN LET markets == Get(r.json, "markets", <<>>) IN
         IF markets # <<>> THEN markets[1] ELSE NoData
    ELSE NoData

(* a variant of process_data that reads volume from the wrong key *)
process_data_wrong_default(d) ==
    [ticker |-> Get(d, "ticker", Str("N/A")),
     title |-> Get(d, "title", Str("N/A")),
     category |-> Get(d, "category", Str("Unknown")),
     status |-> Get(d, "status", Str("Unknown")),
     last_price |-> Get(d, "last_price", Num(0)),
     volume |-> Get(d, "last_price", Num(0)),
     collection_timestamp |-> Timestamp]

(* process_data *)
process_data(d) ==
    [ticker |-> Get(d, "ticker", Str("N/A")),
     title |-> Get(d, "title", Str("N/A")),
     category |-> Get(d, "category", Str("Unknown")),
     status |-> Get(d, "status", Str("Unknown")),
     last_price |-> Get(d, "last_price", Num(0)),
     volume |-> Get(d, "volume", Num(0)),
     collection_timestamp |-> Timestamp]

(* validate_data *)
validate_data(rec) ==
    \A field \in {"ticker", "title", "category"} :
        ~(~Truthy(Get(rec, field, None)) \/ Get(rec, field, None) = Str("N/A"))

(* a variant of collection_complete that compares with > *)
collection_complete_off_by_one(store, n) == Len(store) > n

(* collection_complete *)
collection_complete(store, n) == Len(store) >= n

(* check_completeness *)
check_completeness(store) ==
    IF store = <<>> THEN <<0, 1>>
    ELSE LET total_fields == SumLens(store)
             filled_fields == SumFilled(store)
         IN  IF total_fields > 0 THEN <<filled_fields, total_fields>> ELSE <<0, 1>>

(* check_accuracy *)
check_accuracy(store) ==
    IF store = <<>> THEN <<0, 1>>
    ELSE LET accurate ==
               Cardinality({k \in 1..Len(store) :
                   /\ IsNumber(Get(store[k], "last_price", None))
                   /\ IsNumber(Get(store[k], "volume", None))})
         IN  <<accurate, Len(store)>>

(* check_consistency *)
check_consistency(store) ==
    IF Len(store) < 2 THEN <<1, 1>>
    ELSE LET first_keys == DOMAIN store[1]
             consistent ==
               Cardinality({k \in 1..Len(store) : DOMAIN store[k] = first_keys})
         IN  <<consistent, Len(store)>>

(* a variant of assess_data_quality that divides by three *)
assess_data_quality_three(store) ==
    IF store = <<>> THEN <<0, 1>>
    ELSE RMul(RAdd(RAdd(check_completeness(store), check_accuracy(store)),
                   RAdd(check_consistency(store), <<1, 1>>)),
              <<1, 3>>)

(* assess_data_quality *)
assess_data_quality(store) ==
    IF store = <<>> THEN <<0, 1>>
    ELSE RMul(RAdd(RAdd(check_completeness(store), check_accuracy(store)),
                   RAdd(check_consistency(store), <<1, 1>>)),
              <<1, 4>>)

(* generate_recommendations *)
generate_recommendations(stats, store) ==
    LET r1 == IF RLess(get_success_rate(stats), <<8, 10>>)
              THEN <<"Increase delay between requests">> ELSE <<>>
        r2 == IF RLess(assess_data_quality(store), <<7, 10>>)
              THEN <<"Add validation steps">> ELSE <<>>
        recs == r1 \o r2
    IN  IF recs = <<>> THEN <<"Collection performed well">> ELSE recs

(* generate_final_report: the summary (duration_seconds is a wall-clock    *)
(* reading and is left out)                                                *)
final_summary(stats, store) ==
    [total_records |-> Len(store),
     success_rate |-> get_success_rate(stats),
     quality_score |-> assess_data_quality(store),
     total_requests |-> stats.total_requests,
     successful_requests |-> stats.successful_requests,
     failed_requests |-> stats.failed_requests]

(* generate_final_report: the quality report *)
final_quality_report(stats, store) ==
    [completeness |-> check_completeness(store),
     accuracy |-> check_accuracy(store),
     consistency |-> check_consistency(store),
     timeliness |-> <<1, 1>>,
     recommendations |-> generate_recommendations(stats, store)]

NoSummary ==
    [total_records |-> 0, success_rate |-> <<1, 1>>, quality_score |-> <<0, 1>>,
     total_requests |-> 0, successful_requests |-> 0, failed_requests |-> 0]

NoQualityReport ==
    [completeness |-> <<0, 1>>, accuracy |-> <<0, 1>>, consistency |-> <<0, 1>>,
     timeliness |-> <<0, 1>>, recommendations |-> <<>>]

KalshiFiles ==
    {"kalshi_collected_data.json", "kalshi_collection_summary.json",
     "kalshi_quality_report.json", "kalshi_metadata.json"}

---------------------------------------------------------------------------
(* The markets the API serves during a run. *)
FullMarket ==
    [ticker |-> Str("KXA"), title |-> Str("Rain"), category |-> Str("Weather"),
     status |-> Str("open"), last_price |-> Num(55), volume |-> Num(10)]
NoCategory == [ticker |-> Str("KXB"), title |-> Str("Snow"), volume |-> Num(0)]
NoTicker == [title |-> Str("Hail"), category |-> Str("Weather")]
EmptyTitle ==
    [ticker |-> Str("KXC"), title |-> Str(""), category |-> Str("Weather")]
LiteralNA ==
    [ticker |-> Str("N/A"), title |-> Str("Fog"), category |-> Str("Weather")]
TextPrice ==
    [ticker |-> Str("KXD"), title |-> Str("Wind"), category |-> Str("Weather"),
     last_price |-> Str("55"), event_ticker |-> Str("EV")]

RunMarkets ==
    {Dict(FullMarket), Dict(NoCategory), Dict(NoTicker), Dict(EmptyTitle),
     Dict(LiteralNA), Dict(TextPrice), Dict(EmptyMap), NonMapping}

KalshiResponses ==
    {Raised, HttpError, Malformed, Ok(EmptyMap), Ok([markets |-> <<>>])}
    \cup {Ok([markets |-> <<m>>]) : m \in RunMarkets}

(* run_collection: the test of the while loop *)
LoopTest ==
    /\ script = "kalshi" /\ pc = "loop"
    /\ pc' = IF collection_complete(data_store, num_markets)
             THEN "report" ELSE "collect"
    /\ UNCHANGED <<script, response, last_event, http_requests, saved,
                   kalshi_vars, cat_vars, holiday_vars>>

(* collect_batch: the strategy adjustment and make_api_request with        *)
(* response r.  counting is FALSE only beyond MaxRequests, where the model *)
(* stops counting and the counters and the multiplier hold their values.   *)
Batch(r, counting) ==
    /\ script = "kalshi" /\ pc = "collect"
    /\ response' = r
    /\ last_event' = "request"
    /\ data' = make_api_request_result(r)
    /\ pc' = "store"
    /\ IF counting
       THEN /\ http_requests' = http_requests + 1
            /\ delay_multiplier' =
                 collect_batch_multiplier(collection_stats, delay_multiplier)
            /\ collection_stats' = make_api_request_stats(collection_stats, r)
       ELSE UNCHANGED <<http_requests, delay_multiplier, collection_stats>>
    /\ UNCHANGED <<script, saved, num_markets, data_store, processed,
                   exception_caught, summary, quality_report, cat_vars,
                   holiday_vars>>

CollectBatch ==
    /\ http_requests < MaxRequests
    /\ \E r \in KalshiResponses : Batch(r, TRUE)

(* run_collection: "if data: self.process_and_store(data)".  A truthy      *)
(* value that is not a mapping makes process_data raise AttributeError,    *)
(* which run_collection's except clause catches: the loop is left.         *)
ProcessAndStore ==
    /\ script = "kalshi" /\ pc = "store"
    /\ IF ~TruthyData(data)
       THEN /\ pc' = "delay"
            /\ UNCHANGED <<processed, data_store, exception_caught>>
       ELSE IF data.kind # "dict"
       THEN /\ pc' = "report"
            /\ exception_caught' = TRUE
            /\ UNCHANGED <<processed, data_store>>
       ELSE /\ processed' = process_data(data.val)
            /\ data_store' = IF validate_data(processed')
                             THEN Append(data_store, processed')
                             ELSE data_store
            /\ pc' = "delay"
            /\ UNCHANGED exception_caught
    /\ UNCHANGED <<script, response, last_event, http_requests, saved,
                   num_markets, collection_stats, delay_multiplier, data,
                   summary, quality_report, cat_vars, holiday_vars>>

(* a variant of respectful_delay that returns without sleeping *)
respectful_delay_skipped == last_event' = last_event

(* respectful_delay: time.sleep(base_delay * delay_multiplier * jitter) *)
respectful_delay == last_event' = "sleep"

(* run_collection: assess_performance (logging only), respectful_delay *)
AssessAndDelay ==
    /\ script = "kalshi" /\ pc = "delay"
    /\ respectful_delay
    /\ pc' = "loop"
    /\ UNCHANGED <<script, response, http_requests, saved, kalshi_vars,
                   cat_vars, holiday_vars>>

(* generate_final_report and save_reports, in run_collection's finally *)
GenerateFinalReport ==
    /\ script = "kalshi" /\ pc = "report"
    /\ summary' = final_summary(collection_stats, data_store)
    /\ quality_report' = final_quality_report(collection_stats, data_store)
    /\ saved' = saved \cup KalshiFiles
    /\ pc' = "done"
    /\ UNCHANGED <<script, response, last_event, http_requests, num_markets,
                   data_store, collection_stats, delay_multiplier, data,
                   processed, exception_caught, cat_vars, holiday_vars>>

---------------------------------------------------------------------------
(* assignment-scripts/cat-facts.py *)

CatResponses ==
    {Raised, HttpError, Malformed, Ok(EmptyMap), Ok([fact |-> Str("")]),
     Ok([fact |-> Str("f1")]), Ok([fact |-> Str("f2")])}

(* get_cat_facts: the try block encloses the whole for loop, so an         *)
(* exception raised by requests.get or by response.json() leaves the loop. *)
leaves_loop(r) == r.raised \/ (r.status_code = 200 /\ ~r.decodes)

(* get_cat_facts: the facts after one iteration that raised nothing *)
facts_after(fs, r) ==
    IF r.status_code = 200 /\ Truthy(Get(r.json, "fact", None))
    THEN Append(fs, r.json.fact)
    ELSE fs

(* get_cat_facts: one iteration of "for i in range(num_facts)" *)
CatRequest ==
    /\ script = "cat" /\ pc = "loop" /\ i < NumFacts
    /\ \E r \in CatResponses :
        /\ response' = r
        /\ IF leaves_loop(r)
           THEN /\ pc' = "return"
                /\ UNCHANGED <<i, facts>>
           ELSE /\ facts' = facts_after(facts, r)
                /\ i' = i + 1
                /\ pc' = IF i + 1 < NumFacts THEN "loop" ELSE "return"
    /\ last_event' = "request"
    /\ http_requests' = http_requests + 1
    /\ UNCHANGED <<script, saved, kalshi_vars, holiday_vars>>

(* module body: print the facts, "if cat_facts: save_facts_to_json" *)
CatSave ==
    /\ script = "cat" /\ pc = "return"
    /\ saved' = IF facts # <<>> THEN saved \cup {"cat_facts.json"} ELSE saved
    /\ pc' = "done"
    /\ UNCHANGED <<script, response, last_event, http_requests, kalshi_vars,
                   cat_vars, holiday_vars>>

---------------------------------------------------------------------------
(* assignment-scripts/holidays.py *)

Holiday(name, date) == [name |-> Str(name), date |-> Str(date)]

HolidayResponses ==
    {Raised, HttpError, Malformed, Ok(<<>>),
     Ok(<<Holiday("New Year", "2024-01-01")>>),
     Ok(<<Holiday("New Year", "2024-01-01"), Holiday("Xmas", "2024-12-25")>>)}

(* get_public_holidays: the list returned, <<>> standing for None as well  *)
(* (the caller only tests truthiness); raise_for_status raises on an error *)
(* status, and every exception is caught in the function.                  *)
get_public_holidays(r) ==
    IF r.raised \/ r.status_code # 200 \/ ~r.decodes THEN <<>> ELSE r.json

(* the module-level loop body: countries_summary[country] = ... *)
record_country(cs, country, holidays) ==
    [c \in DOMAIN cs \cup {country} |->
        IF c = country
        THEN (IF holidays # <<>> THEN Len(holidays) ELSE 0)
        ELSE cs[c]]

(* max(d, key=d.get) and min(d, key=d.get): the first key, in insertion    *)
(* order, whose value is the largest (smallest).                           *)
first_max(cs) ==
    LET idx == {k \in 1..Len(countries) : countries[k] \in DOMAIN cs}
        k0 == CHOOSE k \in idx :
                  /\ \A j \in idx : cs[countries[j]] <= cs[countries[k]]
                  /\ \A j \in idx : j < k => cs[countries[j]] < cs[countries[k]]
    IN  countries[k0]

first_min(cs) ==
    LET idx == {k \in 1..Len(countries) : countries[k] \in DOMAIN cs}
        k0 == CHOOSE k \in idx :
                  /\ \A j \in idx : cs[countries[j]] >= cs[countries[k]]
                  /\ \A j \in idx : j < k => cs[countries[j]] > cs[countries[k]]
    IN  countries[k0]

(* create_holiday_summary *)
create_holiday_summary(cs) ==
    [countries |-> cs,
     statistics |->
        IF DOMAIN cs # {}
        THEN LET max_country == first_max(cs)
                 min_country == first_min(cs)
             IN  [most_holidays |->
                      [country |-> max_country, count |-> cs[max_country]],
                  least_holidays |->
                      [country |-> min_country, count |-> cs[min_country]]]
        ELSE EmptyMap]

NoHolidaySummary == [countries |-> EmptyMap, statistics |-> EmptyMap]

(* one iteration of "for country in countries" *)
HolidayRequest ==
    /\ script = "holidays" /\ pc = "loop" /\ ci <= Len(countries)
    /\ \E r \in HolidayResponses :
        /\ response' = r
        /\ countries_summary' =
             record_country(countries_summary, countries[ci],
                            get_public_holidays(r))
    /\ ci' = ci + 1
    /\ pc' = IF ci + 1 <= Len(countries) THEN "loop" ELSE "summary"
    /\ last_event' = "request"
    /\ http_requests' = http_requests + 1
    /\ UNCHANGED <<script, saved, kalshi_vars, cat_vars, holiday_summary>>

(* create_holiday_summary(countries_summary) *)
CreateHolidaySummary ==
    /\ script = "holidays" /\ pc = "summary"
    /\ holiday_summary' = create_holiday_summary(countries_summary)
    /\ saved' = saved \cup {"holidays_summary.json"}
    /\ pc' = "done"
    /\ UNCHANGED <<script, response, last_event, http_requests, kalshi_vars,
                   cat_vars, ci, countries_summary>>

---------------------------------------------------------------------------
NoResponse ==
    [raised |-> FALSE, status_code |-> 0, decodes |-> FALSE, json |-> EmptyMap]

(* The state of a script as it starts: KalshiDataAgent.__init__ with a     *)
(* configuration whose num_markets is a non-negative integer, the locals   *)
(* of get_cat_facts, the module-level variables of holidays.py.            *)
Init ==
    /\ script \in {"kalshi", "cat", "holidays"}
    /\ pc = "loop"
    /\ response = NoResponse
    /\ last_event = "none"
    /\ http_requests = 0
    /\ saved = {}
    /\ num_markets \in (IF script = "kalshi" THEN 0..MaxMarkets ELSE {0})
    /\ data_store = <<>>
    /\ collection_stats = InitialStats
    /\ delay_multiplier = <<1, 1>>
    /\ data = NoData
    /\ processed = EmptyMap
    /\ exception_caught = FALSE
    /\ summary = NoSummary
    /\ quality_report = NoQualityReport
    /\ i = 0
    /\ facts = <<>>
    /\ ci = 1
    /\ countries_summary = EmptyMap
    /\ holiday_summary = NoHolidaySummary

Next ==
    \/ LoopTest
    \/ CollectBatch
    \/ ProcessAndStore
    \/ AssessAndDelay
    \/ GenerateFinalReport
    \/ CatRequest
    \/ CatSave
    \/ HolidayRequest
    \/ CreateHolidaySummary

Spec == Init /\ [][Next]_vars

---------------------------------------------------------------------------
(* Beyond MaxRequests the model stops counting: the iteration runs as the  *)
(* code runs it, with the counters and the multiplier held.  It is part of *)
(* the specification of complete runs only.                                *)
CollectBeyondBound ==
    /\ http_requests >= MaxRequests
    /\ \E r \in KalshiResponses : Batch(r, FALSE)

LiveNext == Next \/ CollectBeyondBound

(* A script is one thread that runs until it returns: a step that can be   *)
(* taken is eventually taken.  The responses are the environment's choice. *)
LiveSpec == Init /\ [][LiveNext]_vars /\ WF_vars(LiveNext)

---------------------------------------------------------------------------
(* process_data on its own: the agent right after its first request was    *)
(* answered with one raw market, for every raw market built from the       *)
(* options below (a key absent, or present with one of a few values).      *)
Absent == [tag |-> "absent", s |-> "", n |-> 0]

RawKeys ==
    <<"ticker", "title", "category", "status", "last_price", "volume",
      "event_ticker">>

RawOptions ==
    <<{Absent, Str("KXA"), Str(""), Str("N/A"), None},
      {Absent, Str("Rain"), Str("")},
      {Absent, Str("Weather"), Str("Unknown"), None},
      {Absent, Str("open")},
      {Absent, Num(55), Num(0), Str("55")},
      {Absent, Num(10), None},
      {Absent, Str("EV")}>>

RawMarket(choice) ==
    LET present == {k \in 1..Len(RawKeys) : choice[k] # Absent}
        index(key) == CHOOSE k \in present : RawKeys[k] = key
    IN  [key \in {RawKeys[k] : k \in present} |-> choice[index(key)]]

AllRawMarkets ==
    {RawMarket(<<a, b, c, d, e, f, g>>) :
        a \in RawOptions[1], b \in RawOptions[2], c \in RawOptions[3],
        d \in RawOptions[4], e \in RawOptions[5], f \in RawOptions[6],
        g \in RawOptions[7]}

InitPD ==
    /\ script = "kalshi"
    /\ pc = "store"
    /\ \E m \in AllRawMarkets :
        /\ response = Ok([markets |-> <<Dict(m)>>])
        /\ data = Dict(m)
    /\ last_event = "request"
    /\ http_requests = 1
    /\ saved = {}
    /\ num_markets \in 1..MaxMarkets
    /\ data_store = <<>>
    /\ collection_stats = make_api_request_stats(InitialStats, response)
    /\ delay_multiplier = collect_batch_multiplier(InitialStats, <<1, 1>>)
    /\ processed = EmptyMap
    /\ exception_caught = FALSE
    /\ summary = NoSummary
    /\ quality_report = NoQualityReport
    /\ i = 0
    /\ facts = <<>>
    /\ ci = 1
    /\ countries_summary = EmptyMap
    /\ holiday_summary = NoHolidaySummary

SpecPD == InitPD /\ [][ProcessAndStore]_vars

---------------------------------------------------------------------------
(* The claims. *)

RequiredFields == {"ticker", "title", "category"}
RecordKeys ==
    {"ticker", "title", "category", "status", "last_price", "volume",
     "collection_timestamp"}

(* a step of the run that issues an HTTP request *)
IssuesRequest == http_requests' = http_requests + 1

(* the response of a failed network call *)
FailedCall(r) == r.raised \/ r.status_code # 200 \/ ~r.decodes

(* C1: a record is appended to data_store only if the raw market carries a *)
(* non-empty ticker, a non-empty title and a non-empty category.           *)
C1_StoresOnlyCompleteMarkets ==
    [][(script = "kalshi" /\ Len(data_store') > Len(data_store)) =>
          \A f \in RequiredFields :
              f \in DOMAIN data.val /\ Truthy(data.val[f])]_vars

(* C2: the adjustment before each request doubles the multiplier when the  *)
(* success rate is below 0.5, multiplies it by 0.8 when the rate is above  *)
(* 0.9, and leaves it unchanged otherwise.                                 *)
C2_DelayAdjustment ==
    [][(script = "kalshi" /\ pc = "collect" /\ pc' = "store") =>
          LET total == collection_stats.total_requests
              rate == IF total > 0
                      THEN <<collection_stats.successful_requests, total>>
                      ELSE <<1, 1>>
              expected == IF 2 * rate[1] < rate[2]
                          THEN <<2 * delay_multiplier[1], delay_multiplier[2]>>
                          ELSE IF 10 * rate[1] > 9 * rate[2]
                          THEN <<4 * delay_multiplier[1], 5 * delay_multiplier[2]>>
                          ELSE delay_multiplier
          IN  REq(delay_multiplier', expected)]_vars

(* the mean of the four scores of the quality report *)
ReportMean ==
    LET sum == RAdd(RAdd(quality_report.completeness, quality_report.accuracy),
                    RAdd(quality_report.consistency, quality_report.timeliness))
    IN  <<sum[1], 4 * sum[2]>>

ReportWritten == script = "kalshi" /\ pc = "done"

(* C3: for every content of data_store, the empty store included, the      *)
(* quality_score of the summary is the mean of the four scores of the      *)
(* quality report.                                                         *)
C3_QualityScoreIsMean ==
    ReportWritten => REq(summary.quality_score, ReportMean)

(* C3, amended: for a non-empty data_store the quality_score is the mean   *)
(* of the four scores; for the empty store it is 0, while the report holds *)
(* completeness 0, accuracy 0, consistency 1 and timeliness 1.             *)
C3_QualityScoreIsMeanUnlessEmpty ==
    ReportWritten =>
        IF summary.total_records > 0
        THEN REq(summary.quality_score, ReportMean)
        ELSE /\ REq(summary.quality_score, <<0, 1>>)
             /\ REq(quality_report.completeness, <<0, 1>>)
             /\ REq(quality_report.accuracy, <<0, 1>>)
             /\ REq(quality_report.consistency, <<1, 1>>)
             /\ REq(quality_report.timeliness, <<1, 1>>)

C3_Witness ==
    /\ ReportWritten
    /\ summary.total_records = 2
    /\ RLess(summary.quality_score, <<1, 1>>)
    /\ RLess(quality_report.accuracy, <<1, 1>>)

(* C4: a failed network call affects only that call: the records already   *)
(* collected are unchanged and the run goes on to its remaining planned    *)
(* requests.                                                               *)
C4_FailureAffectsOnlyThatCall ==
    [][(IssuesRequest /\ FailedCall(response')) =>
          /\ data_store' = data_store
          /\ facts' = facts
          /\ \A c \in DOMAIN countries_summary :
                 countries_summary'[c] = countries_summary[c]
          /\ script = "kalshi" => pc' = "store"
          /\ script = "cat" => (i' = i + 1 /\ (pc' = "return" => i' = NumFacts))
          /\ script = "holidays" =>
                 (ci' = ci + 1 /\ (pc' = "summary" => ci' > Len(countries)))]_vars

(* C5: in every script a sleep occurs between any two consecutive HTTP     *)
(* requests of a run.                                                      *)
C5_SleepBetweenRequests ==
    [][IssuesRequest => last_event # "request"]_vars

(* C5, amended: in the Kalshi agent a sleep occurs between any two         *)
(* consecutive HTTP requests of a run; cat-facts.py and holidays.py never  *)
(* sleep.                                                                  *)
C5_SleepBetweenKalshiRequests ==
    /\ [][(script = "kalshi" /\ IssuesRequest) => last_event # "request"]_vars
    /\ [](script # "kalshi" => last_event # "sleep")

C5_Witness ==
    script = "kalshi" /\ http_requests >= 2 /\ last_event = "request"

(* C6: the success rate is successful_requests / total_requests when       *)
(* total_requests > 0 and 1 before any request, and lies between 0 and 1.  *)
C6_SuccessRateInUnitInterval ==
    script = "kalshi" =>
        LET total == collection_stats.total_requests
            rate == get_success_rate(collection_stats)
        IN  /\ total > 0 =>
                   REq(rate, <<collection_stats.successful_requests, total>>)
            /\ total = 0 => REq(rate, <<1, 1>>)
            /\ rate[2] > 0
            /\ 0 <= rate[1] /\ rate[1] <= rate[2]
            /\ pc = "done" => REq(summary.success_rate, rate)

C6_Witness ==
    /\ script = "kalshi"
    /\ collection_stats.total_requests >= 3
    /\ collection_stats.successful_requests > 0
    /\ collection_stats.successful_requests < collection_stats.total_requests

(* the defaults the claim names *)
ClaimedDefault(k) ==
    CASE k \in {"ticker", "title"} -> Str("N/A")
      [] k \in {"category", "status"} -> Str("Unknown")
      [] OTHER -> Num(0)

(* C7: process_data yields exactly the seven keys; each data field is the  *)
(* raw market's value when the key is present and its default otherwise;   *)
(* the raw market is not modified.                                         *)
C7_ProcessDataDefaults ==
    (script = "kalshi" /\ pc = "delay" /\ TruthyData(data)) =>
        /\ DOMAIN processed = RecordKeys
        /\ \A k \in RecordKeys \ {"collection_timestamp"} :
               processed[k] = IF k \in DOMAIN data.val
                              THEN data.val[k] ELSE ClaimedDefault(k)
        /\ data = response.json.markets[1]

C7_Witness ==
    /\ script = "kalshi" /\ pc = "delay"
    /\ DOMAIN data.val = {"title", "volume", "event_ticker"}
    /\ data.val.volume = None
    /\ processed.ticker = Str("N/A")
    /\ processed.volume = None

(* C8: run_collection always terminates with the final report written.     *)
C8_RunCollectionTerminates ==
    script = "kalshi" => <>(pc = "done" /\ KalshiFiles \subseteq saved)

(* C9: total_requests = successful_requests + failed_requests after every  *)
(* call of make_api_request and in the run summary.                        *)
C9_RequestAccounting ==
    script = "kalshi" =>
        /\ collection_stats.total_requests =
             collection_stats.successful_requests
             + collection_stats.failed_requests
        /\ pc = "done" =>
             summary.total_requests =
               summary.successful_requests + summary.failed_requests

(* what the claim means by a record that passes validation *)
PassesValidation(rec) ==
    \A f \in RequiredFields :
        f \in DOMAIN rec /\ Truthy(rec[f]) /\ rec[f] # Str("N/A")

C10_State ==
    script = "kalshi" =>
        /\ Len(data_store) <= num_markets
        /\ \A k \in 1..Len(data_store) : PassesValidation(data_store[k])
        /\ (pc = "done" /\ ~exception_caught) =>
               summary.total_records = num_markets

C10_Step ==
    script = "kalshi" =>
        /\ Len(data_store') \in {Len(data_store), Len(data_store) + 1}
        /\ SubSeq(data_store', 1, Len(data_store)) = data_store
        /\ data_store' # data_store => pc = "store"
        /\ collection_stats'.total_requests =
             collection_stats.total_requests + (IF pc = "collect" THEN 1 ELSE 0)
        /\ http_requests' = http_requests + (IF pc = "collect" THEN 1 ELSE 0)
        /\ pc = "loop" => pc' \in {"collect", "report"}
        /\ pc = "collect" => pc' = "store"
        /\ pc = "store" => pc' \in {"delay", "report"}
        /\ pc = "delay" => pc' = "loop"

(* C10: len(data_store) <= num_markets in every state; an iteration issues *)
(* exactly one request and appends at most one record; records are never   *)
(* removed or reordered; every stored record passes validation; a loop     *)
(* that ends without an exception leaves total_records = num_markets.      *)
C10_DataStoreInvariant == []C10_State /\ [][C10_Step]_vars

C10_Witness ==
    /\ script = "kalshi" /\ pc = "done" /\ ~exception_caught
    /\ num_markets = 2
    /\ summary.total_records = 2
    /\ summary.total_requests > 2

===========================================================================
